---- MODULE Spec2Model ----
(***************************************************************************)
(* A model of datasets/dataset_gen.py: the script that reads oil           *)
(* production readings from CSV files, cleans and normalizes every well's  *)
(* series, cuts it into (input, output) windows, shuffles the windows,     *)
(* splits them 6:1:1 and writes the three sets to qri.pkl.gz.              *)
(*                                                                         *)
(* Readings are integer valued, so sums, means and standard deviations are *)
(* kept exactly: for a series s of n readings with sum S and sum of        *)
(* squares Q, mean = S/n and std = sqrt(n*Q - S*S)/n.  A normalized        *)
(* reading (v - mean)/std = (n*v - S)/sqrt(n*Q - S*S) is kept as the pair  *)
(* <<n*v - S, n*Q - S*S>> (numerator, square of the denominator).          *)
(* The mean and the standard deviation of an empty series are nan, which   *)
(* compares unequal to 0.                                                  *)
(***************************************************************************)
EXTENDS Integers, Sequences, FiniteSets, TLC

\* ------------------------------------------------------------ parameters
DATA_DIRECTORY == "../data"
IN_MONTHS == 36
OUT_MONTHS == 12
MIN_MONTHS == IN_MONTHS + OUT_MONTHS
STEP_MONTHS == 24
REMOVE_ZEROS == TRUE
REMOVE_OUTLIERS == TRUE
SMOOTH_DATA == FALSE
NORMALIZE_DATA == TRUE
OUTLIER_Z == 4

\* ---------------------------------------------------------------- bounds
\* most files a data directory holds
MaxFiles == 2
\* rows of the longest file of the catalog
MaxRows == 73
\* most windows of the one long well whose chunks are split
MaxChunks == 7
\* most windows of the one long well whose readings repeat
MaxCycled == 8

\* The directory the script is started from.
START_DIRECTORY == "."

\* ---------------------------------------------------------------- inputs
\* A CSV row: the number of its cells, the well name in cell 3, the
\* production in cell 4 and whether float() accepts that cell.
Row(name, oil) == [cells |-> 5, name |-> name, oil |-> oil, numeric |-> TRUE]
ShortRow(name) == [cells |-> 4, name |-> name, oil |-> 0, numeric |-> TRUE]
TextRow(name) == [cells |-> 5, name |-> name, oil |-> 0, numeric |-> FALSE]

Rows(name, oils) == [i \in 1..Len(oils) |-> Row(name, oils[i])]

\* Series shapes the catalog's files are built from.
Ramp(n) == [i \in 1..n |-> 1 + ((i - 1) % 25)]
Saw(n) == [i \in 1..n |-> 3 + ((2 * i) % 23)]
Flat(n) == [i \in 1..n |-> 7]
\* readings that repeat every 2*STEP_MONTHS months: the windows of such a
\* well are of two kinds, those at the even and those at the odd steps
Cycle(n) == [i \in 1..n |-> 1 + ((i - 1) % (2 * STEP_MONTHS))]
Zeros(n) == [i \in 1..n |-> 0]
\* a flat series with one far reading
Spike(n) == [i \in 1..n |-> IF i = 2 THEN 200 ELSE 7]
\* n - 1 equal readings and one other: with n = OUTLIER_Z^2 + 1 the other
\* reading lies exactly OUTLIER_Z standard deviations from the mean
Edge(n) == [i \in 1..n |-> IF i = n THEN 3 ELSE 2]
\* a ramp with one zero reading and one far reading
Dirty(n) == [i \in 1..n |-> IF i = 5 THEN 0 ELSE IF i = 9 THEN 200 ELSE 1 + ((i - 1) % 25)]

\* A file of the data directory: whether open() succeeds, whether it has a
\* first (header) line, and the rows after it.
File(fname, rows) == [file |-> fname, readable |-> TRUE, header |-> TRUE, rows |-> rows]

Catalog ==
    { File("a_min1.csv", Rows("A", Ramp(MIN_MONTHS + 1))),
      File("a_max.csv", Rows("A", Ramp(MaxRows))),
      File("a_zero.csv", Rows("A", Zeros(3))),
      File("b_min.csv", Rows("B", Ramp(MIN_MONTHS))),
      File("b_min1.csv", Rows("B", Saw(MIN_MONTHS + 1))),
      File("b_dirty.csv", Rows("B", Dirty(MIN_MONTHS + 3))),
      File("b_flat.csv", Rows("B", Flat(5))),
      File("b_spike.csv", Rows("B", Spike(20))),
      File("b_edge.csv", Rows("B", Edge(OUTLIER_Z * OUTLIER_Z + 1))),
      File("short.csv", Rows("A", Ramp(2)) \o << ShortRow("A") >> \o Rows("A", Ramp(1))),
      File("text.csv", Rows("B", Saw(1)) \o << TextRow("B") >>),
      [file |-> "empty.csv", readable |-> TRUE, header |-> FALSE, rows |-> << >>],
      [file |-> "subdir", readable |-> FALSE, header |-> FALSE, rows |-> << >>] }

Directories == { d \in SUBSET Catalog : Cardinality(d) <= MaxFiles }

\* The file of one well that gives n windows: a ramp of
\* MIN_MONTHS + 1 + (n - 1)*STEP_MONTHS readings.
LongFile(n) == File("a_long.csv", Rows("A", Ramp(MIN_MONTHS + 1 + (n - 1) * STEP_MONTHS)))

\* The file of one well of repeating readings that gives n windows.
CycleFile(n) == File("a_cycle.csv", Rows("A", Cycle(MIN_MONTHS + 1 + (n - 1) * STEP_MONTHS)))

\* The data directories that hold one such file.
LongDirectories ==
    { { LongFile(n) } : n \in 0..MaxChunks } \cup { { CycleFile(n) } : n \in 1..MaxCycled }

\* --------------------------------------------------------------- helpers
\* The dictionary with no key.
EmptyDict == [k \in {} |-> << >>]

\* s[lo] + ... + s[hi], by halves
RECURSIVE SumRange(_, _, _)
SumRange(s, lo, hi) ==
    IF lo > hi THEN 0
    ELSE IF lo = hi THEN s[lo]
    ELSE LET mid == (lo + hi) \div 2
         IN  SumRange(s, lo, mid) + SumRange(s, mid + 1, hi)

\* np.sum(s)
Sum(s) == SumRange(s, 1, Len(s))

\* np.sum(s**2)
SumSq(s) == CHOOSE q \in { Sum(sq) : sq \in { [i \in 1..Len(s) |-> s[i] * s[i]] } } : TRUE

\* len(s)**2 times the variance of s: np.std(s) = sqrt(VarN2(s))/len(s).
VarN2(s) == Len(s) * SumSq(s) - Sum(s) * Sum(s)

\* np.std(s) == 0; the std of an empty array is nan and nan == 0 is False.
std_is_zero(s) == Len(s) > 0 /\ VarN2(s) = 0


\* Whether the pass of the loop over the rows (lines 53-61) raises on this
\* row: row[4] raises IndexError on a row of fewer than five cells, float()
\* raises ValueError on a cell that is no number, both before the dictionary
\* is touched.
raises(row) == row.cells < 5 \/ ~row.numeric

\* The number of rows the loop over the rows gets through: all of them, or
\* those before the first one that raises.
rows_read(rows) ==
    LET bad == { i \in 1..Len(rows) : raises(rows[i]) }
    IN  IF bad = {} THEN Len(rows)
        ELSE (CHOOSE i \in bad : \A j \in bad : i <= j) - 1

\* The loop over the rows of one file (lines 53-61): every row read
\* appends its production to the list of its well, a new well starting
\* from the empty list; gives the dictionary when the loop ends and the
\* exception that ended it, if any.
read_rows(d, rows) ==
    LET k == rows_read(rows)
        read == SubSeq(rows, 1, k)
        names == { read[i].name : i \in 1..k }
        of(w) == SelectSeq(read, LAMBDA row : row.name = w)
        had(w) == IF w \in DOMAIN d THEN d[w] ELSE << >>
    IN  [data |-> [w \in DOMAIN d \cup names |->
                       had(w) \o [i \in 1..Len(of(w)) |-> of(w)[i].oil]],
         error |-> IF k = Len(rows) THEN "none"
                   ELSE IF rows[k + 1].cells < 5 THEN "get_data:IndexError"
                   ELSE "get_data:ValueError"]

\* The body of the loop over the files (lines 45-61) for file f: open() raises
\* IOError, reader.next() raises StopIteration on a file with no line.
read_file(d, f) ==
    IF ~f.readable THEN [data |-> d, error |-> "get_data:IOError"]
    ELSE IF ~f.header THEN [data |-> d, error |-> "get_data:StopIteration"]
    ELSE read_rows(d, f.rows)

\* filter(lambda oil: oil != 0, s) (line 78)
remove_zeros(s) == SelectSeq(s, LAMBDA oil : oil # 0)

\* outlier removal that measures against the variance, not the std:
\* |v - S/n| <= Z*(n*Q - S*S)/n^2
remove_outliers_var(s) ==
    LET n == Len(s)
        S == Sum(s)
        V == VarN2(s)
        dev(v) == IF n * v >= S THEN n * v - S ELSE S - n * v
    IN  { SelectSeq(s, LAMBDA v : n * dev(v) <= OUTLIER_Z * V) }

\* s[abs(s - np.mean(s)) <= OUTLIER_Z*np.std(s)] (line 88), as the set of
\* the results the comparison in doubles can give:
\* |v - S/n| <= Z*sqrt(n*Q - S*S)/n  iff  (n*v - S)^2 <= Z^2*(n*Q - S*S).
\* The two sides differ by at least one part in 2^31 when they differ, far
\* more than the rounding of the doubles, so a strict inequality is decided
\* as in exact arithmetic.  When the two sides are equal and the std is not
\* zero the rounding decides: 16 readings 2 and one 3 lose the 3, 16
\* readings 0 and one 17 keep the 17.  Readings of one value fare alike, so
\* any set D of the values on the edge may be dropped.  When the std is
\* zero both sides are 0 in doubles too and all readings are kept.  On an
\* empty s the mask is empty and so is the result.  The sum S and
\* n*Q - S*S are taken once for the whole series.
remove_outliers(s) ==
    LET n == Len(s)
        S == Sum(s)
        V == VarN2(s)
        far(v, S0, V0) == (n * v - S0) * (n * v - S0) - OUTLIER_Z * OUTLIER_Z * V0
        edge(S0, V0) == { s[i] : i \in { j \in 1..n : V0 # 0 /\ far(s[j], S0, V0) = 0 } }
        within(S0, V0, D) == SelectSeq(s, LAMBDA v : far(v, S0, V0) <= 0 /\ v \notin D)
    IN  UNION { { within(S0, V0, D) : D \in SUBSET edge(S0, V0) } : S0 \in {S}, V0 \in {V} }

\* (s - np.mean(s))/np.std(s) (line 101), each reading as the pair
\* <<n*v - S, n*Q - S*S>>; the sum S and n*Q - S*S are taken once for the
\* whole series.
normalize(s) ==
    LET n == Len(s)
        scaled(S, V) == [i \in 1..n |-> << n * s[i] - S, V >>]
    IN  CHOOSE r \in { scaled(S, V) : S \in {Sum(s)}, V \in {VarN2(s)} } : TRUE

\* s[a:b] for 0 <= a, 0 <= b
Slice(s, a, b) ==
    LET lo == IF a > Len(s) THEN Len(s) ELSE a
        hi == IF b > Len(s) THEN Len(s) ELSE b
    IN  IF hi <= lo THEN << >> ELSE SubSeq(s, lo + 1, hi)

\* The loop that makes chunks (lines 107-113) from offset i on: the (input,
\* output) windows of series s in the order they are appended.
RECURSIVE make_chunks(_, _)
make_chunks(s, i) ==
    IF i >= Len(s) THEN << >>
    ELSE LET in_index == i
             out_index == i + IN_MONTHS
             end_index == i + IN_MONTHS + OUT_MONTHS
             rest == make_chunks(s, i + STEP_MONTHS)
         IN  IF end_index < Len(s)
             THEN << << Slice(s, in_index, out_index), Slice(s, out_index, end_index) >> >> \o rest
             ELSE rest

\* generate_data_sets with the training set cut at 5n/8
generate_data_sets_ratio(c) ==
    LET n == Len(c[1])
    IN  << << Slice(c[1], 0, (5 * n) \div 8), Slice(c[2], 0, (5 * n) \div 8) >>,
           << Slice(c[1], (5 * n) \div 8, (7 * n) \div 8), Slice(c[2], (5 * n) \div 8, (7 * n) \div 8) >>,
           << Slice(c[1], (7 * n) \div 8, n), Slice(c[2], (7 * n) \div 8, n) >> >>

\* generate_data_sets with the outputs of the validation set cut one late
generate_data_sets_shift(c) ==
    LET n == Len(c[1])
    IN  << << Slice(c[1], 0, (6 * n) \div 8), Slice(c[2], 0, (6 * n) \div 8) >>,
           << Slice(c[1], (6 * n) \div 8, (7 * n) \div 8), Slice(c[2], (6 * n) \div 8 + 1, (7 * n) \div 8 + 1) >>,
           << Slice(c[1], (7 * n) \div 8, n), Slice(c[2], (7 * n) \div 8, n) >> >>

\* generate_data_sets (lines 164-173); / is Python 2's integer division.
generate_data_sets(c) ==
    LET n == Len(c[1])
    IN  << << Slice(c[1], 0, (6 * n) \div 8), Slice(c[2], 0, (6 * n) \div 8) >>,
           << Slice(c[1], (6 * n) \div 8, (7 * n) \div 8), Slice(c[2], (6 * n) \div 8, (7 * n) \div 8) >>,
           << Slice(c[1], (7 * n) \div 8, n), Slice(c[2], (7 * n) \div 8, n) >> >>

\* ----------------------------------------------------------------- state
VARIABLES
    pc,         \* the statement the script is at
    error,      \* the uncaught exception that ended the run, or "none"
    cwd,        \* the process working directory
    seeded,     \* whether rnd.seed(SEED) has run
    unread,     \* the files of the data directory not yet read
    startdir,   \* get_data's local startdir
    data,       \* the dictionary of main and of get_data
    todo,       \* the keys the loop of preprocess_data has not visited yet
    name,       \* the loop variable of preprocess_data
    oils,       \* preprocess_data's local oils
    new_data,   \* preprocess_data's local new_data
    x, y,       \* preprocess_data's locals x and y
    shuffled,   \* preprocess_data's local shuffled
    chunks,     \* main's chunks
    data_sets,  \* main's data_sets
    written     \* whether qri.pkl.gz has been written

vars == << pc, error, cwd, seeded, unread, startdir, data, todo, name, oils,
           new_data, x, y, shuffled, chunks, data_sets, written >>

Init ==
    /\ pc = "main"
    /\ error = "none"
    /\ cwd = START_DIRECTORY
    /\ seeded = FALSE
    /\ unread \in Directories
    /\ startdir = ""
    /\ data = EmptyDict
    /\ todo = {}
    /\ name = ""
    /\ oils = << >>
    /\ new_data = EmptyDict
    /\ x = << >>
    /\ y = << >>
    /\ shuffled = << >>
    /\ chunks = << << >>, << >> >>
    /\ data_sets = << >>
    /\ written = FALSE

\* --------------------------------------------------------------- actions
\* main with the call of rnd.seed left out
seed_skipped ==
    /\ pc = "main"
    /\ pc' = "get_data"
    /\ UNCHANGED << error, cwd, seeded, unread, startdir, data, todo, name, oils,
                    new_data, x, y, shuffled, chunks, data_sets, written >>

\* rnd.seed(SEED) (line 177)
seed ==
    /\ pc = "main"
    /\ seeded' = TRUE
    /\ pc' = "get_data"
    /\ UNCHANGED << error, cwd, unread, startdir, data, todo, name, oils,
                    new_data, x, y, shuffled, chunks, data_sets, written >>

\* get_data up to the loop over the files (lines 37-44)
get_data_enter ==
    /\ pc = "get_data"
    /\ data' = EmptyDict
    /\ startdir' = cwd
    /\ cwd' = DATA_DIRECTORY
    /\ pc' = "listdir"
    /\ UNCHANGED << error, seeded, unread, todo, name, oils, new_data, x, y,
                    shuffled, chunks, data_sets, written >>

\* One pass of the loop over the files (lines 44-61); os.listdir gives the
\* files in arbitrary order.  An exception leaves get_data at once.
get_data_file ==
    /\ pc = "listdir"
    /\ \E f \in unread :
          \E r \in { read_file(data, f) } :
              /\ data' = r.data
              /\ unread' = unread \ {f}
              /\ error' = r.error
              /\ pc' = IF r.error = "none" THEN "listdir" ELSE "error"
    /\ UNCHANGED << cwd, seeded, startdir, todo, name, oils, new_data, x, y,
                    shuffled, chunks, data_sets, written >>

\* The end of get_data (lines 63-67)
get_data_return ==
    /\ pc = "listdir"
    /\ unread = {}
    /\ cwd' = startdir
    /\ pc' = "preprocess_data"
    /\ UNCHANGED << error, seeded, unread, startdir, data, todo, name, oils,
                    new_data, x, y, shuffled, chunks, data_sets, written >>

\* Where the loop over the wells goes with the keys t left (line 75)
for_name(t) == IF t = {} THEN "shuffle" ELSE "remove_zeros"

\* preprocess_data up to its loop (lines 72-75)
preprocess_data_enter ==
    /\ pc = "preprocess_data"
    /\ new_data' = EmptyDict
    /\ x' = << >>
    /\ y' = << >>
    /\ todo' = DOMAIN data
    /\ pc' = for_name(DOMAIN data)
    /\ UNCHANGED << error, cwd, seeded, unread, startdir, data, name, oils,
                    shuffled, chunks, data_sets, written >>

\* Zero removal and the first skip (lines 75-84) for the next well; the
\* dictionary gives its keys in arbitrary order.
zeros_step ==
    /\ pc = "remove_zeros"
    /\ \E n \in todo :
          /\ name' = n
          /\ todo' = todo \ {n}
          /\ \E kept \in { IF REMOVE_ZEROS THEN remove_zeros(data[n]) ELSE data[n] } :
                /\ oils' = kept
                /\ pc' = IF std_is_zero(kept) THEN for_name(todo \ {n}) ELSE "remove_outliers"
    /\ UNCHANGED << error, cwd, seeded, unread, startdir, data, new_data, x, y,
                    shuffled, chunks, data_sets, written >>

\* Outlier removal and the second skip (lines 86-97); SMOOTH_DATA is False,
\* so lines 92-93 never run.
outliers_step ==
    /\ pc = "remove_outliers"
    /\ \E kept \in (IF REMOVE_OUTLIERS THEN remove_outliers(oils) ELSE {oils}) :
          /\ oils' = kept
          /\ pc' = IF std_is_zero(kept) THEN for_name(todo) ELSE "normalize"
    /\ UNCHANGED << error, cwd, seeded, unread, startdir, data, todo, name,
                    new_data, x, y, shuffled, chunks, data_sets, written >>

\* Normalization and the store into new_data (lines 99-104)
normalize_step ==
    /\ pc = "normalize"
    /\ \E scaled \in { IF NORMALIZE_DATA THEN normalize(oils) ELSE oils } :
          /\ oils' = scaled
          /\ new_data' = (name :> scaled) @@ new_data
    /\ pc' = "make_chunks"
    /\ UNCHANGED << error, cwd, seeded, unread, startdir, data, todo, name,
                    x, y, shuffled, chunks, data_sets, written >>

\* The windows of the well appended to x and y (lines 106-113)
chunks_step ==
    /\ pc = "make_chunks"
    /\ \E w \in { make_chunks(oils, 0) } :
          /\ x' = x \o [k \in 1..Len(w) |-> w[k][1]]
          /\ y' = y \o [k \in 1..Len(w) |-> w[k][2]]
    /\ pc' = for_name(todo)
    /\ UNCHANGED << error, cwd, seeded, unread, startdir, data, todo, name,
                    oils, new_data, shuffled, chunks, data_sets, written >>

\* x and y shuffled each on its own
shuffle_apart ==
    /\ pc = "shuffle"
    /\ \E p, q \in Permutations(1..Len(x)) :
          shuffled' = [k \in 1..Len(x) |-> << x[p[k]], y[q[k]] >>]
    /\ pc' = "unpack"
    /\ UNCHANGED << error, cwd, seeded, unread, startdir, data, todo, name,
                    oils, new_data, x, y, chunks, data_sets, written >>

\* list(zip(x, y)) shuffled in place (lines 115-116): some permutation
shuffle ==
    /\ pc = "shuffle"
    /\ \E p \in Permutations(1..Len(x)) :
          shuffled' = [k \in 1..Len(x) |-> << x[p[k]], y[p[k]] >>]
    /\ pc' = "unpack"
    /\ UNCHANGED << error, cwd, seeded, unread, startdir, data, todo, name,
                    oils, new_data, x, y, chunks, data_sets, written >>

\* an unpacking that gives two empty arrays for an empty list
unpack_empty ==
    /\ pc = "unpack"
    /\ x' = [k \in 1..Len(shuffled) |-> shuffled[k][1]]
    /\ y' = [k \in 1..Len(shuffled) |-> shuffled[k][2]]
    /\ chunks' = << [k \in 1..Len(shuffled) |-> shuffled[k][1]],
                    [k \in 1..Len(shuffled) |-> shuffled[k][2]] >>
    /\ data' = new_data
    /\ pc' = "generate_data_sets"
    /\ UNCHANGED << error, cwd, seeded, unread, startdir, todo, name, oils,
                    new_data, shuffled, data_sets, written >>

\* x, y = zip(*shuffled) and the return to main (lines 117-118 and 181):
\* zip(*[]) is [], which does not unpack into two names.
unpack ==
    /\ pc = "unpack"
    /\ IF shuffled = << >>
       THEN /\ error' = "preprocess_data:ValueError"
            /\ pc' = "error"
            /\ UNCHANGED << x, y, chunks, data >>
       ELSE /\ x' = [k \in 1..Len(shuffled) |-> shuffled[k][1]]
            /\ y' = [k \in 1..Len(shuffled) |-> shuffled[k][2]]
            /\ chunks' = << [k \in 1..Len(shuffled) |-> shuffled[k][1]],
                            [k \in 1..Len(shuffled) |-> shuffled[k][2]] >>
            /\ data' = new_data
            /\ pc' = "generate_data_sets"
            /\ UNCHANGED error
    /\ UNCHANGED << cwd, seeded, unread, startdir, todo, name, oils, new_data,
                    shuffled, data_sets, written >>

\* data_sets = generate_data_sets(chunks) (line 183)
generate ==
    /\ pc = "generate_data_sets"
    /\ data_sets' = generate_data_sets(chunks)
    /\ pc' = "write"
    /\ UNCHANGED << error, cwd, seeded, unread, startdir, data, todo, name,
                    oils, new_data, x, y, shuffled, chunks, written >>

\* The data sets written to qri.pkl.gz (lines 184-186)
write ==
    /\ pc = "write"
    /\ written' = TRUE
    /\ pc' = "print_done"
    /\ UNCHANGED << error, cwd, seeded, unread, startdir, data, todo, name,
                    oils, new_data, x, y, shuffled, chunks, data_sets >>

\* print "Done!" (line 187)
done ==
    /\ pc = "print_done"
    /\ pc' = "done"
    /\ UNCHANGED << error, cwd, seeded, unread, startdir, data, todo, name,
                    oils, new_data, x, y, shuffled, chunks, data_sets, written >>

Next ==
    \/ seed
    \/ get_data_enter
    \/ get_data_file
    \/ get_data_return
    \/ preprocess_data_enter
    \/ zeros_step
    \/ outliers_step
    \/ normalize_step
    \/ chunks_step
    \/ shuffle
    \/ unpack
    \/ generate
    \/ write
    \/ done

Spec == Init /\ [][Next]_vars

\* The script runs on until it ends or an exception stops it.
LiveSpec == Init /\ [][Next]_vars /\ WF_vars(Next)


\* ------------------------------------------- the split of longer inputs
\* The script started in a data directory that holds one long file.
SplitInit ==
    /\ pc = "main"
    /\ error = "none"
    /\ cwd = START_DIRECTORY
    /\ seeded = FALSE
    /\ unread \in LongDirectories
    /\ startdir = ""
    /\ data = EmptyDict
    /\ todo = {}
    /\ name = ""
    /\ oils = << >>
    /\ new_data = EmptyDict
    /\ x = << >>
    /\ y = << >>
    /\ shuffled = << >>
    /\ chunks = << << >>, << >> >>
    /\ data_sets = << >>
    /\ written = FALSE

SplitSpec == SplitInit /\ [][Next]_vars

\* ------------------------------------------------------------------ claims
\* preprocess_data has returned to main
Returned == pc \in {"generate_data_sets", "write", "print_done", "done"}

\* generate_data_sets has returned to main
Split == pc \in {"write", "print_done", "done"}

\* C3 as stated: for every n the training set holds 6n/8 pairs, the
\* validation set n/8 pairs and the test set n/8 pairs.
C3_AsStated ==
    Split =>
        LET n == Len(chunks[1])
        IN  /\ 8 * Len(data_sets[1][1]) = 6 * n
            /\ 8 * Len(data_sets[2][1]) = n
            /\ 8 * Len(data_sets[3][1]) = n

\* C3 amended: of n chunk pairs the training set holds floor(6n/8), the
\* validation set floor(7n/8) - floor(6n/8) and the test set
\* n - floor(7n/8); these are 6n/8, n/8 and n/8 when n is a multiple of 8,
\* and otherwise each set is less than one pair away from its 6:1:1 share.
C3_SplitSizes ==
    Split =>
        LET n == Len(chunks[1])
            tr == Len(data_sets[1][1])
            va == Len(data_sets[2][1])
            te == Len(data_sets[3][1])
        IN  /\ tr = (6 * n) \div 8
            /\ va = (7 * n) \div 8 - (6 * n) \div 8
            /\ te = n - (7 * n) \div 8
            /\ n % 8 = 0 => (8 * tr = 6 * n /\ 8 * va = n /\ 8 * te = n)
            /\ 6 * n - 8 < 8 * tr /\ 8 * tr <= 6 * n
            /\ n - 8 < 8 * va /\ 8 * va < n + 8
            /\ n <= 8 * te /\ 8 * te < n + 8

\* a split of 8 shuffled chunks, not all alike, into sets of 6, 1 and 1
C3_Witness ==
    /\ Split
    /\ Len(chunks[1]) > 0
    /\ Len(chunks[1]) % 8 = 0
    /\ \A i \in 1..3 : Len(data_sets[i][1]) > 0
    /\ chunks[1][1] # chunks[1][2]
    /\ chunks[1][1] # SubSeq(new_data["A"], 1, IN_MONTHS)

\* C4: the three sets partition the chunks in order: the inputs of train,
\* validation and test concatenated are x, the outputs concatenated are y,
\* and in every set inputs and outputs are equally many, so input j keeps
\* its output.
C4_Partition ==
    Split =>
        /\ data_sets[1][1] \o data_sets[2][1] \o data_sets[3][1] = chunks[1]
        /\ data_sets[1][2] \o data_sets[2][2] \o data_sets[3][2] = chunks[2]
        /\ \A i \in 1..3 : Len(data_sets[i][1]) = Len(data_sets[i][2])

\* a split that leaves no set empty, of chunks that are all different and
\* that the shuffle has brought out of the order of their offsets
C4_Witness ==
    /\ Split
    /\ Len(chunks[1]) = MaxChunks
    /\ chunks[1][1] = SubSeq(new_data["A"], STEP_MONTHS + 1, STEP_MONTHS + IN_MONTHS)
    /\ \A i \in 1..3 : Len(data_sets[i][1]) > 0
    /\ \A j, k \in 1..Len(chunks[1]) : j # k => chunks[1][j] # chunks[1][k]


\* Whether chunk pair (cx, cy) is the run of MIN_MONTHS readings that starts
\* at offset o of series s.
IsRunAt(cx, cy, s, o) ==
    /\ o % STEP_MONTHS = 0
    /\ o + MIN_MONTHS <= Len(s)
    /\ SubSeq(s, o + 1, o + MIN_MONTHS) = cx \o cy

\* C1: when preprocess_data has returned, every index k of the chunk arrays
\* has an input of IN_MONTHS readings and an output of OUT_MONTHS readings
\* that together are one contiguous run of a single well's preprocessed
\* series, starting at a multiple of STEP_MONTHS.
C1_Windows ==
    Returned =>
        /\ Len(chunks[1]) = Len(chunks[2])
        /\ \A k \in 1..Len(chunks[1]) :
              /\ Len(chunks[1][k]) = IN_MONTHS
              /\ Len(chunks[2][k]) = OUT_MONTHS
              /\ \E w \in DOMAIN new_data :
                    \E o \in 0..Len(new_data[w]) :
                        IsRunAt(chunks[1][k], chunks[2][k], new_data[w], o)

\* chunks of two wells returned, the first of them a window that starts
\* past the beginning of its well's series
C1_Witness ==
    /\ Returned
    /\ Cardinality(DOMAIN new_data) = 2
    /\ Len(chunks[1]) >= 3
    /\ \E w \in DOMAIN new_data :
          \E o \in 1..Len(new_data[w]) :
              IsRunAt(chunks[1][1], chunks[2][1], new_data[w], o)

\* The numerators of a normalized series
Nums(s) == [i \in 1..Len(s) |-> s[i][1]]

\* np.mean(s) == 0 of a normalized series; the mean of no reading is nan
mean_is_zero(s) == Len(s) > 0 /\ Sum(Nums(s)) = 0

\* np.var(s) == 1 of a normalized series: the squares of the numerators sum
\* to len(s) times the squared denominator
var_is_one(s) == Len(s) > 0 /\ SumSq(Nums(s)) = Len(s) * s[1][2]

\* C2 as stated: every series of the returned dictionary has mean zero and
\* variance one.
C2_AsStated ==
    Returned => \A w \in DOMAIN new_data : mean_is_zero(new_data[w]) /\ var_is_one(new_data[w])

\* The stage a statement belongs to: load 1, filter/transform 2, window 3,
\* shuffle 4, split 5, persist 6, the end 7, an uncaught exception 8.
Stage(p) ==
    CASE p = "main" -> 0
      [] p \in {"get_data", "listdir"} -> 1
      [] p \in {"preprocess_data", "remove_zeros", "remove_outliers", "normalize"} -> 2
      [] p = "make_chunks" -> 3
      [] p \in {"shuffle", "unpack"} -> 4
      [] p = "generate_data_sets" -> 5
      [] p = "write" -> 6
      [] p \in {"print_done", "done"} -> 7
      [] p = "error" -> 8

\* Every file of directory d opens, has a header line and rows of five
\* cells with a number in the production cell.
WellFormed(d) ==
    \A f \in d : /\ f.readable
                 /\ f.header
                 /\ \A i \in 1..Len(f.rows) : ~raises(f.rows[i])

\* The files of d read in some order
RECURSIVE ReadAll(_, _)
ReadAll(dict, d) ==
    IF d = {} THEN dict
    ELSE LET f == CHOOSE g \in d : TRUE
         IN  ReadAll(read_file(dict, f).data, d \ {f})

\* The least number of readings that can be left of series s when it is
\* windowed
Kept(s) ==
    LET z == remove_zeros(s)
        left(o) == IF std_is_zero(z) \/ std_is_zero(o) THEN 0 ELSE Len(o)
    IN  CHOOSE m \in { left(o) : o \in remove_outliers(z) } :
            \A o \in remove_outliers(z) : m <= left(o)

\* Directory d yields at least one window
YieldsWindow(d) ==
    LET dict == ReadAll(EmptyDict, d)
    IN  \E w \in DOMAIN dict : Kept(dict[w]) > MIN_MONTHS

\* C5 as stated: the stages run in the order load, filter/transform, window,
\* shuffle, split, persist, each once and only after the one before it has
\* finished; the generator is seeded before the shuffle; a well-formed input
\* that yields a window ends in Done with the file written.
C5_AsStated ==
    /\ [][Stage(pc') >= Stage(pc)]_vars
    /\ [](Stage(pc) \in 4..7 => seeded)
    /\ (pc = "main" /\ WellFormed(unread) /\ YieldsWindow(unread)) ~> (pc = "done" /\ written)

\* C5 amended: load runs once; then for every well in turn its
\* filter/transform is followed by its windowing, so these two stages
\* alternate, once per well that is not skipped; then shuffle, split and
\* persist run once each in that order; the generator is seeded before the
\* shuffle; a well-formed input that yields a window ends in Done with the
\* file written.
C5_Pipeline ==
    /\ [][\/ Stage(pc') >= Stage(pc)
          \/ (pc = "make_chunks" /\ pc' = "remove_zeros")]_vars
    /\ [](Stage(pc) \in 4..7 => seeded)
    /\ (pc = "main" /\ WellFormed(unread) /\ YieldsWindow(unread)) ~> (pc = "done" /\ written)

\* a finished run that windowed two wells
C5_Witness ==
    /\ pc = "done"
    /\ written
    /\ seeded
    /\ Cardinality(DOMAIN new_data) = 2
    /\ Len(chunks[1]) >= 2

\* C6 as stated: a well whose preprocessed series has at least MIN_MONTHS
\* readings contributes a window, a well with fewer contributes none.
C6_AsStated ==
    [][pc = "make_chunks" =>
          IF Len(oils) >= MIN_MONTHS THEN Len(x') > Len(x) ELSE Len(x') = Len(x)]_vars

\* C7 as stated: every well of the returned dictionary has a series that is
\* not empty (its standard deviation was defined and not zero).
C7_AsStated ==
    Returned => \A w \in DOMAIN new_data : Len(new_data[w]) > 0

\* Whether a is b with every occurrence of some values left out and the
\* order of the others kept; such an a is an order-preserving subsequence
\* of b.
IsSubSeqOf(a, b) ==
    LET kept == { a[i] : i \in 1..Len(a) }
    IN  a = SelectSeq(b, LAMBDA v : v \in kept)

\* Series a holds no zero and no reading farther than OUTLIER_Z standard
\* deviations from the mean, both taken over the readings of raw that are
\* not zero (n of them, with sum S and sum of squares Q).
IsClean(a, raw) ==
    LET n == Cardinality({ i \in 1..Len(raw) : raw[i] # 0 })
        S == Sum(raw)
        Q == SumSq(raw)
    IN  \A i \in 1..Len(a) :
            /\ a[i] # 0
            /\ (n * a[i] - S) * (n * a[i] - S) <= OUTLIER_Z * OUTLIER_Z * (n * Q - S * S)

\* oils is the series of well name after zero and outlier removal and before
\* normalization (the well is at line 99, or was skipped at line 84 or 97)
Cleaned ==
    /\ pc \in {"normalize", "remove_zeros", "shuffle", "unpack"}
    /\ name # ""
    /\ name \notin DOMAIN new_data

\* C8: the series of a well before normalization is an order-preserving
\* subsequence of the well's readings, without any zero and without any
\* reading farther than OUTLIER_Z standard deviations from the mean of the
\* readings that are not zero, and it is empty only if all readings are zero.
C8_Cleaned ==
    Cleaned =>
        /\ IsSubSeqOf(oils, data[name])
        /\ IsClean(oils, data[name])
        /\ (\E i \in 1..Len(data[name]) : data[name][i] # 0) => Len(oils) > 0

\* a well about to be normalized that lost a zero and a far reading
C8_Witness ==
    /\ pc = "normalize"
    /\ Len(oils) > MIN_MONTHS
    /\ \E i \in 1..Len(data[name]) : data[name][i] = 0
    /\ \E i \in 1..Len(data[name]) :
          data[name][i] # 0 /\ \A j \in 1..Len(oils) : oils[j] # data[name][i]

\* C9 as stated: whenever get_data has ended, by a return or by an
\* exception, the working directory is the one of the moment of the call.
C9_AsStated ==
    pc \notin {"main", "get_data", "listdir"} => cwd = startdir

\* C10: when no well yields a window preprocess_data does not return: the
\* run ends in the exception of the unpacking with nothing written, and
\* chunk arrays that are returned, split or written are never empty.
C10_NoWindows ==
    /\ (pc = "error" /\ error = "preprocess_data:ValueError") =>
          (x = << >> /\ y = << >> /\ shuffled = << >> /\ ~written)
    /\ (pc = "unpack" /\ x = << >>) => shuffled = << >>
    /\ Returned => (Len(chunks[1]) > 0 /\ Len(chunks[2]) > 0)
    /\ written => Returned

\* the exception of the unpacking for a well of exactly MIN_MONTHS readings
C10_Witness ==
    /\ pc = "error"
    /\ error = "preprocess_data:ValueError"
    /\ \E w \in DOMAIN new_data : Len(new_data[w]) = MIN_MONTHS

====
